---- MODULE Spec2Model ----
(***************************************************************************)
(* A model of d7.py, the batch driver that extracts every input archive    *)
(* with 7-Zip into a directory of its own.                                 *)
(*                                                                         *)
(* A file name is a sequence of one-character strings, a path is a         *)
(* sequence of names (always absolute and normalised, so os.path.abspath   *)
(* leaves it as it is), and the empty path stands for None and "", which   *)
(* the code tells apart nowhere (it only tests "if(dir_path)").            *)
(* The filesystem is a function from the existing paths to their kind.     *)
(***************************************************************************)
EXTENDS Integers, Sequences, FiniteSets, TLC

VARIABLES
    fs,           \* the filesystem: existing path |-> "file" or "dir"
    rev,          \* os.scandir enumerates in NameOrder, or in its reverse
    pc,           \* position of the process in main()
    args,         \* the parsed command line (argparse namespace)
    exitStatus,   \* {} while running, {s} once the process has ended with s
    files,        \* get_file_list: the list built so far
    invalid,      \* get_file_list: files is None
    k,            \* get_file_list: index of the next path of path_list
    work_dir,     \* main: create_dir(args.output)
    statistics,   \* main: [total, failure]
    i,            \* main: loop index, 0-based as in the code
    separate_dir, \* main: output directory of the current archive
    rtn,          \* main: the CompletedProcess of the current archive
    emitted,      \* the records the last step handed to the logger (INFO and up)
    invocations,  \* what the external tool has been run with: file, out_dir
    nonzero,      \* how many times the external tool has answered with a code # 0
    calls,        \* the calls of create_dir that returned, with the filesystem
                  \* before and after each
    raised        \* the uncaught exception that ended the process, or "none"

vars == <<fs, rev, pc, args, exitStatus, files, invalid, k, work_dir,
          statistics, i, separate_dir, rtn, emitted, invocations, nonzero,
          calls, raised>>

----------------------------------------------------------------------------
(* Bounds of the model *)

MaxInputs == 2      \* number of -i options on the command line
MaxDirFiles == 2    \* number of regular files placed in directory D
MaxProbe == 2       \* a(1) .. a(MaxProbe) may exist before create_dir is tried

----------------------------------------------------------------------------
(* Names and paths *)

nD    == <<"D">>
nS    == <<"s">>
nO    == <<"O">>
nX    == <<"x">>
nQ    == <<"q">>
nA    == <<"a">>
nA1   == <<"a", "(", "1", ")">>
nAzip == <<"a", ".", "z", "i", "p">>
nA7z  == <<"a", ".", "7", "z">>
nArar == <<"a", ".", "r", "a", "r">>
nAZIP == <<"A", ".", "Z", "I", "P">>
nCtgz == <<"c", ".", "t", "a", "r", ".", "g", "z">>
nTtar == <<"t", ".", "t", "a", "r">>
nHid  == <<".", "h">>
n7zexe == <<"7", "z", ".", "e", "x", "e">>
n7zz   == <<"7", "z", "z">>
nZipexe == <<"z", "i", "p", ".", "e", "x", "e">>

None == <<>>

Digits == <<"0", "1", "2", "3", "4", "5", "6", "7", "8", "9">>

RECURSIVE IntToStr(_)
IntToStr(n) ==
    IF n < 10 THEN <<Digits[n + 1]>>
    ELSE IntToStr(n \div 10) \o <<Digits[(n % 10) + 1]>>

dirname(p) == SubSeq(p, 1, Len(p) - 1)
basename(p) == p[Len(p)]
join(base, name) == Append(base, name)

RECURSIVE PathStr(_)
PathStr(p) ==
    IF p = <<>> THEN <<>> ELSE PathStr(dirname(p)) \o <<"/">> \o basename(p)

RECURSIVE LastDot(_, _)
LastDot(name, j) ==
    IF j = 0 THEN 0
    ELSE IF name[j] = "." THEN j ELSE LastDot(name, j - 1)

(* os.path.splitext of a base name: the extension starts at the last dot,  *)
(* unless only dots precede that dot.                                      *)
splitext(name) ==
    LET d == LastDot(name, Len(name))
    IN  IF d > 0 /\ \E j \in 1..(d - 1) : name[j] # "."
        THEN <<SubSeq(name, 1, d - 1), SubSeq(name, d, Len(name))>>
        ELSE <<name, <<>>>>

startswithDot(name) == Len(name) > 0 /\ name[1] = "."

----------------------------------------------------------------------------
(* The filesystem *)

exists(f, p) == p \in DOMAIN f
isfile(f, p) == p \in DOMAIN f /\ f[p] = "file"
isdir(f, p)  == p \in DOMAIN f /\ f[p] = "dir"

NameOrder == <<nHid, nAzip, nS, nA7z, nA, nA1, nAZIP, nCtgz, nTtar, nArar,
               nD, nO, nX, nQ, n7zexe, n7zz, nZipexe>>

RECURSIVE Reverse(_)
Reverse(s) == IF s = <<>> THEN <<>> ELSE Append(Reverse(Tail(s)), Head(s))

RECURSIVE Filter(_, _, _)
Filter(s, f, p) ==
    IF s = <<>> THEN <<>>
    ELSE IF exists(f, join(p, Head(s)))
         THEN <<Head(s)>> \o Filter(Tail(s), f, p)
         ELSE Filter(Tail(s), f, p)

(* os.scandir(path): the names of the entries of path, in the order the    *)
(* platform enumerates them.                                               *)
scandir(f, r, p) == Filter(IF r THEN Reverse(NameOrder) ELSE NameOrder, f, p)

----------------------------------------------------------------------------
(* create_dir *)

Suffix(n) == <<"(">> \o IntToStr(n) \o <<")">>
AddSuffix(p, n) == [p EXCEPT ![Len(p)] = @ \o Suffix(n)]

(* Probe, were it to skip every suffixed name that exists, directories     *)
(* included (os.path.exists in the place of os.path.isfile).               *)
RECURSIVE Probe_exists(_, _, _)
Probe_exists(f, p, n) ==
    IF ~exists(f, AddSuffix(p, n)) THEN n ELSE Probe_exists(f, p, n + 1)

(* for i in itertools.count(1): if(not os.path.isfile(path + f"({i})"))    *)
RECURSIVE Probe(_, _, _)
Probe(f, p, n) ==
    IF ~isfile(f, AddSuffix(p, n)) THEN n ELSE Probe(f, p, n + 1)

ChosenPath(f, p) == IF isfile(f, p) THEN AddSuffix(p, Probe(f, p, 1)) ELSE p

Prefix(p, j) == SubSeq(p, 1, j)

(* The levels os.makedirs has to create, lowest first. *)
MissingFrom(f, p) ==
    IF \E j \in 1..Len(p) : ~exists(f, Prefix(p, j))
    THEN CHOOSE j \in 1..Len(p) :
            /\ ~exists(f, Prefix(p, j))
            /\ \A h \in 1..(j - 1) : exists(f, Prefix(p, h))
    ELSE Len(p) + 1

(* os.makedirs(p), p being no directory.  It creates the missing levels    *)
(* from the top.  mkdir raises when the parent is a regular file or p       *)
(* exists, and the platform may refuse any level (permissions, invalid     *)
(* characters): failAt is the level refused, Len(p) + 1 when none is.      *)
makedirs(f, p, failAt) ==
    LET m == MissingFrom(f, p)
        blocked == m > Len(p) \/ (m > 1 /\ ~isdir(f, Prefix(p, m - 1)))
        last == IF blocked THEN m - 1
                ELSE IF failAt < m THEN Len(p)
                ELSE IF failAt > Len(p) THEN Len(p) ELSE failAt - 1
        made == {Prefix(p, j) : j \in m..last}
        ok == ~blocked /\ (failAt < m \/ failAt > Len(p))
    IN  [raised |-> ~ok,
         fs |-> [q \in (DOMAIN f) \cup made |->
                    IF q \in DOMAIN f THEN f[q] ELSE "dir"]]

(* create_dir, were os.makedirs called without the test of os.path.isdir. *)
create_dir_unguarded(f, dir_path, failAt) ==
    IF dir_path = <<>>
    THEN [raised |-> FALSE, path |-> None, fs |-> f]
    ELSE LET abs_dir_path == ChosenPath(f, dir_path)
             r == makedirs(f, abs_dir_path, failAt)
         IN  [raised |-> r.raised, path |-> abs_dir_path, fs |-> r.fs]

(* create_dir(dir_path) on filesystem f. *)
create_dir(f, dir_path, failAt) ==
    IF dir_path = <<>>
    THEN [raised |-> FALSE, path |-> None, fs |-> f]
    ELSE LET abs_dir_path == ChosenPath(f, dir_path)
         IN  IF ~isdir(f, abs_dir_path)
             THEN LET r == makedirs(f, abs_dir_path, failAt)
                  IN  [raised |-> r.raised, path |-> abs_dir_path, fs |-> r.fs]
             ELSE [raised |-> FALSE, path |-> abs_dir_path, fs |-> f]

(* The choices of failAt that differ in effect: a level os.makedirs has to *)
(* create, or none.                                                        *)
FailChoices(f, dir_path) ==
    IF dir_path = <<>> THEN {1}
    ELSE LET q == ChosenPath(f, dir_path)
         IN  {j \in 1..(Len(q) + 1) : j >= MissingFrom(f, q)}

----------------------------------------------------------------------------
(* get_file_list *)

RECURSIVE search_entries(_, _, _, _, _)
search_entries(f, r, path, es, recursive) ==
    IF es = <<>> THEN <<>>
    ELSE LET name == Head(es)
             p == join(path, name)
             here == IF ~startswithDot(name) /\ isfile(f, p) THEN <<p>>
                     ELSE IF ~startswithDot(name) /\ isdir(f, p)
                          THEN IF recursive
                               THEN search_entries(f, r, p, scandir(f, r, p),
                                                   recursive)
                               ELSE <<>>
                          ELSE <<>>
         IN  here \o search_entries(f, r, path, Tail(es), recursive)

(* search_sub_dir, were it to walk into the sub-directories whatever the   *)
(* flag says.                                                              *)
search_sub_dir_walking(f, r, path, recursive) ==
    search_entries(f, r, path, scandir(f, r, path), TRUE)

search_sub_dir(f, r, path, recursive) ==
    search_entries(f, r, path, scandir(f, r, path), recursive)

----------------------------------------------------------------------------
(* seven_zip, getSeverity and the table of return values *)

Some(x) == {x}
Nothing == {}
The(o) == CHOOSE x \in o : TRUE

PasswordExts == {<<".", "z", "i", "p">>, <<".", "7", "z">>,
                 <<".", "r", "a", "r">>, <<>>}
CodepageExts == {<<".", "z", "i", "p">>, <<".", "t", "a", "r">>}

(* The command line seven_zip builds: a sequence of arguments. *)
seven_zip_cmd(exe_path, file_path, out_dir, password, code_page) ==
    LET ext == splitext(basename(file_path))[2]
    IN  <<PathStr(exe_path), <<"x">>, <<"-", "y">>, <<"-", "a", "o", "a">>,
          <<"-", "o">> \o PathStr(out_dir)>>
        \o (IF ext \in PasswordExts /\ password # Nothing
            THEN <<(<<"-", "p">> \o The(password))>> ELSE <<>>)
        \o (IF ext \in CodepageExts /\ code_page # Nothing
            THEN <<(<<"-", "m", "c", "p", "=">> \o IntToStr(The(code_page)))>>
            ELSE <<>>)
        \o <<PathStr(file_path)>>

return_code_table ==
    [c \in {0, 1, 2, 7, 8, 255} |->
        CASE c = 0 -> "No error"
          [] c = 1 -> "Warning"
          [] c = 2 -> "Fatal error"
          [] c = 7 -> "Command line error"
          [] c = 8 -> "Not enough memory for operation"
          [] c = 255 -> "User stopped the process"]

getSeverity(level) ==
    IF level = 0 THEN "INFO"
    ELSE IF level = 1 \/ level = 255 THEN "WARNING"
    ELSE "ERROR"

(* The exit codes the external tool is let to return: those of the table   *)
(* and one that is not in it.                                              *)
RetCodes == {0, 1, 2, 3, 7, 8, 255}

main_executables ==
    {<<"7", "z">>, <<"7", "z", "a">>, <<"7", "z", "z">>,
     <<"7", "z", "z", "s">>, <<"7", "z", "r">>}

----------------------------------------------------------------------------
(* The command lines and the filesystems the model starts from *)

ExePaths == {<<n7zexe>>, <<n7zz>>, <<nZipexe>>}
InputPaths == {<<nD>>, <<nD, nS>>, <<nD, nAzip>>, <<nD, nA>>, <<nD, nQ>>}
OutputPaths == {None, <<nO, nX>>, <<nD, nA>>}
Options == {[password |-> Some(<<"p", "w">>), codepage |-> Some(65001)]}

SeqsUpTo(S, n) == UNION {[1..m -> S] : m \in 1..n}

Args(e, inp, o, op) ==
    [exe |-> e, input |-> inp, output |-> o,
     password |-> op.password, codepage |-> op.codepage]

(* Every command line with the executable that passes the checks; the two  *)
(* executables that do not pass them come with one command line each.      *)
ArgChoices ==
    {Args(<<n7zexe>>, inp, o, op) :
        inp \in SeqsUpTo(InputPaths, MaxInputs), o \in OutputPaths,
        op \in Options}
    \cup {Args(e, <<(<<nD>>)>>, <<nO, nX>>, [password |-> Nothing,
                                             codepage |-> Nothing]) :
            e \in ExePaths}

NoArgs == [exe |-> None, input |-> <<>>, output |-> None,
           password |-> Nothing, codepage |-> Nothing]

(* Directory D with its sub-directory s (holding a.rar), the regular files *)
(* F and the directories G in D, and two files that may be named as the    *)
(* executable.                                                             *)
FsWith(F, G) ==
    LET dirs == {<<nD>>, <<nD, nS>>} \cup {<<nD, n>> : n \in G}
        regs == {<<nD, nS, nArar>>, <<n7zexe>>, <<nZipexe>>}
                \cup {<<nD, n>> : n \in F}
    IN  [p \in dirs \cup regs |-> IF p \in dirs THEN "dir" ELSE "file"]

UpTo(S, n) == {G \in SUBSET S : Cardinality(G) <= n}

MainNames == {nAzip, nA7z, nA, nA1}
InitialFs == {FsWith(F, {}) : F \in UpTo(MainNames, MaxDirFiles)}

----------------------------------------------------------------------------
(* The run of main() *)

LogRec(level, tag, path, nums, desc) ==
    [level |-> level, tag |-> tag, path |-> path, nums |-> nums, desc |-> desc]

NoRtn == [args |-> <<>>, returncode |-> 0]

(* What every specification starts from, apart from fs, rev, pc and args. *)
Fresh ==
    /\ exitStatus = {}
    /\ files = <<>>
    /\ invalid = FALSE
    /\ k = 1
    /\ work_dir = None
    /\ statistics = [total |-> 0, failure |-> 0]
    /\ i = 0
    /\ separate_dir = None
    /\ rtn = NoRtn
    /\ emitted = <<>>
    /\ invocations = <<>>
    /\ nonzero = 0
    /\ calls = <<>>
    /\ raised = "none"

Init ==
    /\ fs \in InitialFs
    /\ rev \in BOOLEAN
    /\ pc = "check_argument"
    /\ args = NoArgs
    /\ Fresh

(* exit(-2) after an error record *)
ExitMinus2(tag) ==
    /\ emitted' = <<LogRec("ERROR", tag, None, <<>>, "")>>
    /\ exitStatus' = {-2}
    /\ pc' = "exited"

(* An exception nothing catches ends the interpreter with status 1. *)
Crash(exc) ==
    /\ raised' = exc
    /\ exitStatus' = {1}
    /\ pc' = "crashed"

(* check_argument: argparse, then the checks of the executable *)
CheckArgument ==
    /\ pc = "check_argument"
    /\ \E a \in ArgChoices :
        /\ args' = a
        /\ IF ~isfile(fs, a.exe)
           THEN ExitMinus2("NOEXE")
           ELSE IF splitext(basename(a.exe))[1] \notin main_executables
                THEN ExitMinus2("BADEXE")
                ELSE /\ pc' = "get_file_list"
                     /\ UNCHANGED <<emitted, exitStatus>>
    /\ UNCHANGED <<fs, rev, files, invalid, k, work_dir, statistics, i,
                   separate_dir, rtn, invocations, nonzero, calls, raised>>

(* get_file_list: one turn of "for path in path_list" *)
GetFileListStep ==
    /\ pc = "get_file_list"
    /\ ~invalid
    /\ k <= Len(args.input)
    /\ LET absolute_path == args.input[k]
       IN  IF isfile(fs, absolute_path)
           THEN files' = files \o <<absolute_path>> /\ invalid' = FALSE
           ELSE IF isdir(fs, absolute_path)
                THEN /\ files' = files \o search_sub_dir(fs, rev, absolute_path,
                                                         FALSE)
                     /\ invalid' = FALSE
                ELSE files' = <<>> /\ invalid' = TRUE
    /\ k' = k + 1
    /\ UNCHANGED <<fs, rev, pc, args, exitStatus, work_dir, statistics, i,
                   separate_dir, rtn, emitted, invocations, nonzero, calls,
                   raised>>

(* GetFileListEnd, were the check of the empty list left out. *)
GetFileListEnd_unchecked ==
    /\ pc = "get_file_list"
    /\ invalid \/ k > Len(args.input)
    /\ IF invalid
       THEN ExitMinus2("INVALIDINPUT")
       ELSE pc' = "create_work_dir" /\ UNCHANGED <<emitted, exitStatus>>
    /\ UNCHANGED <<fs, rev, args, files, invalid, k, work_dir, statistics, i,
                   separate_dir, rtn, invocations, nonzero, calls, raised>>

(* get_file_list: after the loop *)
GetFileListEnd ==
    /\ pc = "get_file_list"
    /\ invalid \/ k > Len(args.input)
    /\ IF invalid
       THEN ExitMinus2("INVALIDINPUT")
       ELSE IF Len(files) <= 0
            THEN ExitMinus2("NOFILE")
            ELSE pc' = "create_work_dir" /\ UNCHANGED <<emitted, exitStatus>>
    /\ UNCHANGED <<fs, rev, args, files, invalid, k, work_dir, statistics, i,
                   separate_dir, rtn, invocations, nonzero, calls, raised>>

Call(desired, before, result, after) ==
    [desired |-> desired, before |-> before, result |-> result,
     after |-> after]

(* main: work_dir = create_dir(args.output), the statistics, the START record *)
CreateWorkDir ==
    /\ pc = "create_work_dir"
    /\ \E failAt \in FailChoices(fs, args.output) :
        LET r == create_dir(fs, args.output, failAt)
        IN  /\ fs' = r.fs
            /\ IF r.raised
               THEN /\ Crash("makedirs: OSError")
                    /\ UNCHANGED <<work_dir, statistics, emitted, calls>>
               ELSE /\ work_dir' = r.path
                    /\ calls' = Append(calls, Call(args.output, fs, r.path, r.fs))
                    /\ statistics' = [total |-> Len(files), failure |-> 0]
                    /\ emitted' = <<LogRec("INFO", "START", None, <<>>, "")>>
                    /\ pc' = "loop"
                    /\ UNCHANGED <<raised, exitStatus>>
    /\ UNCHANGED <<rev, args, files, invalid, k, i, separate_dir, rtn,
                   invocations, nonzero>>

(* Allocate, were the failure of os.makedirs caught and counted as a       *)
(* failure of the archive, the loop going on with the next one.            *)
Allocate_caught ==
    /\ pc = "loop"
    /\ i < statistics.total
    /\ LET name == splitext(basename(files[i + 1]))[1]
           base_dir_path == IF work_dir # None THEN work_dir
                            ELSE dirname(files[i + 1])
           desired == join(base_dir_path, name)
       IN  \E failAt \in FailChoices(fs, desired) :
            LET r == create_dir(fs, desired, failAt)
            IN  /\ fs' = r.fs
                /\ emitted' = <<LogRec("INFO", "IDX/TOTAL", None,
                                       <<i + 1, statistics.total>>, "")>>
                /\ IF r.raised
                   THEN /\ raised' = "makedirs: OSError"
                        /\ statistics' = [statistics EXCEPT !.failure = @ + 1]
                        /\ i' = i + 1
                        /\ UNCHANGED <<separate_dir, calls, pc, exitStatus>>
                   ELSE /\ separate_dir' = r.path
                        /\ calls' = Append(calls,
                                           Call(desired, fs, r.path, r.fs))
                        /\ pc' = "seven_zip"
                        /\ UNCHANGED <<raised, exitStatus, statistics, i>>
    /\ UNCHANGED <<rev, args, files, invalid, k, work_dir, rtn,
                   invocations, nonzero>>

(* main: the head of one turn of the loop, up to create_dir *)
Allocate ==
    /\ pc = "loop"
    /\ i < statistics.total
    /\ LET name == splitext(basename(files[i + 1]))[1]
           base_dir_path == IF work_dir # None THEN work_dir
                            ELSE dirname(files[i + 1])
           desired == join(base_dir_path, name)
       IN  \E failAt \in FailChoices(fs, desired) :
            LET r == create_dir(fs, desired, failAt)
            IN  /\ fs' = r.fs
                /\ emitted' = <<LogRec("INFO", "IDX/TOTAL", None,
                                       <<i + 1, statistics.total>>, "")>>
                /\ IF r.raised
                   THEN /\ Crash("makedirs: OSError")
                        /\ UNCHANGED <<separate_dir, calls>>
                   ELSE /\ separate_dir' = r.path
                        /\ calls' = Append(calls, Call(desired, fs, r.path, r.fs))
                        /\ pc' = "seven_zip"
                        /\ UNCHANGED <<raised, exitStatus>>
    /\ UNCHANGED <<rev, args, files, invalid, k, work_dir, statistics, i, rtn,
                   invocations, nonzero>>

Invocation(file, out_dir) == [file |-> file, out_dir |-> out_dir]

(* seven_zip: the command is built and run; the tool answers with any exit *)
(* code, or the child process cannot be started at all.                    *)
SevenZip ==
    /\ pc = "seven_zip"
    /\ LET cmd == seven_zip_cmd(args.exe, files[i + 1], separate_dir,
                                args.password, args.codepage)
       IN  \/ \E rc \in RetCodes :
                /\ rtn' = [args |-> cmd, returncode |-> rc]
                /\ invocations' = Append(invocations,
                                         Invocation(files[i + 1], separate_dir))
                /\ nonzero' = IF rc # 0 THEN nonzero + 1 ELSE nonzero
                /\ pc' = "record"
                /\ UNCHANGED <<raised, exitStatus>>
           \/ /\ Crash("subprocess.run: OSError")
              /\ UNCHANGED <<rtn, invocations, nonzero>>
    /\ UNCHANGED <<fs, rev, args, files, invalid, k, work_dir, statistics, i,
                   separate_dir, emitted, calls>>

(* main: the failure count and the records of one archive *)
Record ==
    /\ pc = "record"
    /\ statistics' = [statistics EXCEPT !.failure =
                        IF rtn.returncode # 0 THEN @ + 1 ELSE @]
    /\ LET recs == <<LogRec("INFO", "IN_FILE", files[i + 1], <<>>, ""),
                     LogRec("INFO", "OUT_DIR", separate_dir, <<>>, "")>>
       IN  IF rtn.returncode \in DOMAIN return_code_table
           THEN /\ emitted' = recs \o
                        <<LogRec(getSeverity(rtn.returncode), "CMDSTATUS", None,
                                 <<rtn.returncode>>,
                                 return_code_table[rtn.returncode])>>
                /\ i' = i + 1
                /\ pc' = "loop"
                /\ UNCHANGED <<raised, exitStatus>>
           ELSE /\ emitted' = recs
                /\ Crash("KeyError")
                /\ UNCHANGED i
    /\ UNCHANGED <<fs, rev, args, files, invalid, k, work_dir, separate_dir,
                   rtn, invocations, nonzero, calls>>

(* main: the RESULT and END records, return 0 *)
Result ==
    /\ pc = "loop"
    /\ i >= statistics.total
    /\ emitted' =
            <<LogRec("INFO", "RESULT", None,
                     <<statistics.total,
                       statistics.total - statistics.failure,
                       statistics.failure>>, ""),
              LogRec("INFO", "END", None, <<>>, "")>>
    /\ exitStatus' = {0}
    /\ pc' = "done"
    /\ UNCHANGED <<fs, rev, args, files, invalid, k, work_dir, statistics, i,
                   separate_dir, rtn, invocations, nonzero, calls, raised>>

Next ==
    \/ CheckArgument
    \/ GetFileListStep
    \/ GetFileListEnd
    \/ CreateWorkDir
    \/ Allocate
    \/ SevenZip
    \/ Record
    \/ Result

Spec == Init /\ [][Next]_vars

----------------------------------------------------------------------------
(* get_file_list alone, over more directories and input lists *)

ListNames == {nAzip, nA, nHid, nAZIP, nCtgz, nTtar}
ListInputs == {<<nD>>, <<nD, nS>>, <<nD, nAzip>>, <<nD, nHid>>, <<nD, nQ>>}

InitList ==
    /\ fs \in {FsWith(F, {}) : F \in UpTo(ListNames, MaxDirFiles)}
    /\ rev \in BOOLEAN
    /\ pc = "get_file_list"
    /\ args \in {Args(<<n7zexe>>, inp, None, op) :
                    inp \in SeqsUpTo(ListInputs, MaxInputs), op \in Options}
    /\ Fresh

NextList == GetFileListStep \/ GetFileListEnd

SpecList == InitList /\ [][NextList]_vars

----------------------------------------------------------------------------
(* seven_zip alone, over more file names and options *)

nBZip == <<"b", ".", "Z", "i", "p">>

CmdNames == {nAzip, nA7z, nArar, nA, nAZIP, nBZip, nCtgz, nTtar, nHid}
CmdOptions ==
    {[password |-> pw, codepage |-> cp] :
        pw \in {Nothing, Some(<<"p", "w">>)},
        cp \in {Nothing, Some(65001), Some(932)}}

InitCmd ==
    /\ \E n \in CmdNames, op \in CmdOptions :
        /\ fs = FsWith({n}, {nX})
        /\ args = Args(<<n7zexe>>, <<(<<nD, n>>)>>, None, op)
        /\ files = <<(<<nD, n>>)>>
    /\ rev = FALSE
    /\ pc = "seven_zip"
    /\ exitStatus = {}
    /\ invalid = FALSE
    /\ k = 2
    /\ work_dir = None
    /\ statistics = [total |-> 1, failure |-> 0]
    /\ i = 0
    /\ separate_dir = <<nD, nX>>
    /\ rtn = NoRtn
    /\ emitted = <<>>
    /\ invocations = <<>>
    /\ nonzero = 0
    /\ calls = <<>>
    /\ raised = "none"

NextCmd == SevenZip

SpecCmd == InitCmd /\ [][NextCmd]_vars

----------------------------------------------------------------------------
(* create_dir alone, called twice with one desired path *)

DirPaths == {<<nD, nA>>, <<nO, nX>>, <<nD, nA, nX>>, <<nD, nS>>}
ProbeNames == {nA} \cup {nA \o Suffix(n) : n \in 1..MaxProbe}

FsOfKinds(kd) ==
    FsWith({n \in DOMAIN kd : kd[n] = "file"},
           {n \in DOMAIN kd : kd[n] = "dir"})

InitDir ==
    /\ fs \in {FsOfKinds(kd) : kd \in [ProbeNames -> {"absent", "file", "dir"}]}
    /\ rev = FALSE
    /\ pc = "create_dir"
    /\ args \in {Args(<<n7zexe>>, <<(<<nD>>)>>, o, op) :
                    o \in DirPaths, op \in Options}
    /\ Fresh

(* create_dir(args.output), once and once again *)
CreateDirCall ==
    /\ pc = "create_dir"
    /\ Len(calls) < 2
    /\ \E failAt \in FailChoices(fs, args.output) :
        LET r == create_dir(fs, args.output, failAt)
        IN  /\ fs' = r.fs
            /\ IF r.raised
               THEN Crash("makedirs: OSError") /\ UNCHANGED calls
               ELSE /\ calls' = Append(calls, Call(args.output, fs, r.path, r.fs))
                    /\ UNCHANGED <<pc, raised, exitStatus>>
    /\ UNCHANGED <<rev, args, files, invalid, k, work_dir, statistics, i,
                   separate_dir, rtn, emitted, invocations, nonzero>>

NextDir == CreateDirCall

SpecDir == InitDir /\ [][NextDir]_vars

----------------------------------------------------------------------------
(* What the claims speak of *)

Range(q) == {q[j] : j \in 1..Len(q)}

Terminated == pc \in {"done", "exited", "crashed"}

(* The run got through every archive it was given, as far as the           *)
(* filesystem and the start of the child process allowed.                  *)
EndedByEnvironment ==
    raised \in {"makedirs: OSError", "subprocess.run: OSError"}

Tags(recs) == [j \in 1..Len(recs) |-> recs[j].tag]

(* The list get_file_list is to return, said without its loops: each input *)
(* gives itself when it is a file, and else its visible regular files      *)
(* ranked by their place in the enumeration.                               *)
Pos(r, n) ==
    CHOOSE j \in 1..Len(NameOrder) :
        (IF r THEN Reverse(NameOrder) ELSE NameOrder)[j] = n

VisibleFilesOf(f, p) ==
    {n \in Range(NameOrder) : ~startswithDot(n) /\ isfile(f, join(p, n))}

Ranked(f, r, p) ==
    LET V == VisibleFilesOf(f, p)
    IN  [j \in 1..Cardinality(V) |->
            join(p, CHOOSE n \in V :
                        Cardinality({m \in V : Pos(r, m) < Pos(r, n)}) = j - 1)]

Contribution(f, r, p) == IF isfile(f, p) THEN <<p>> ELSE Ranked(f, r, p)

RECURSIVE ExpectedList(_, _, _)
ExpectedList(f, r, inp) ==
    IF inp = <<>> THEN <<>>
    ELSE ExpectedList(f, r, SubSeq(inp, 1, Len(inp) - 1))
         \o Contribution(f, r, inp[Len(inp)])

----------------------------------------------------------------------------
(* C1: for any list of N archives and any exit codes of the tool, codes    *)
(* outside the table included, the run ends with the summary record, in    *)
(* which total = N, failure = the number of archives whose exit code was   *)
(* not 0, and success = N - failure.                                       *)
C1_SummaryCounts ==
    (pc \in {"done", "crashed"} /\ ~EndedByEnvironment) =>
        /\ pc = "done"
        /\ Len(emitted) >= 1
        /\ emitted[1].tag = "RESULT"
        /\ emitted[1].nums =
             <<Len(files), Len(files) - nonzero, nonzero>>

(* C2: no exit code of the tool stops the run: whatever the codes, every   *)
(* archive is allocated a directory and handed to the tool, in input       *)
(* order, the RESULT and END records are emitted and the process ends with *)
(* status 0.                                                               *)
C2_ExitCodeNeverStopsRun ==
    (Terminated /\ pc # "exited" /\ ~EndedByEnvironment) =>
        /\ exitStatus = {0}
        /\ Tags(emitted) = <<"RESULT", "END">>
        /\ Len(invocations) = Len(files)
        /\ \A j \in 1..Len(invocations) :
              /\ invocations[j].file = files[j]
              /\ calls[j + 1].result = invocations[j].out_dir

BaseDir(file) == IF work_dir # None THEN work_dir ELSE dirname(file)

(* C3: two different archives of one run with the same base name and the   *)
(* same base directory are given different output directories.             *)
C3_DistinctOutputDirs ==
    \A a, b \in 1..Len(invocations) :
        ( /\ a < b
          /\ invocations[a].file # invocations[b].file
          /\ splitext(basename(invocations[a].file))[1]
               = splitext(basename(invocations[b].file))[1]
          /\ BaseDir(invocations[a].file) = BaseDir(invocations[b].file) )
        => invocations[a].out_dir # invocations[b].out_dir

(* C4: create_dir, asked for a path that is a regular file, returns the    *)
(* path with the suffix (n) of the smallest n >= 1 whose suffixed path is  *)
(* no regular file; the returned path is a directory afterwards, every     *)
(* regular file of before the call is still one, and the directory handed  *)
(* to the tool is never a regular file.  (Said of the latest call and the  *)
(* latest run of the tool: every one of them has been the latest.)         *)
C4_SuffixedDirectory ==
    /\ \A j \in {Len(calls)} \ {0} :
        LET c == calls[j]
        IN  /\ isfile(c.before, c.desired) =>
                \E n \in 1..(Cardinality(DOMAIN c.before) + 1) :
                    /\ c.result = AddSuffix(c.desired, n)
                    /\ ~isfile(c.before, AddSuffix(c.desired, n))
                    /\ \A m \in 1..(n - 1) :
                          isfile(c.before, AddSuffix(c.desired, m))
            /\ c.desired # None => isdir(c.after, c.result)
            /\ \A q \in DOMAIN c.before :
                  c.before[q] = "file" => isfile(c.after, q) /\ isfile(fs, q)
    /\ \A j \in {Len(invocations)} \ {0} :
          /\ ~isfile(fs, invocations[j].out_dir)
          /\ isdir(fs, invocations[j].out_dir)

(* An extensionless archive whose first suffixed name is taken has been    *)
(* given the directory with suffix (2) and handed to the tool.             *)
C4_Witness ==
    \E j \in 1..Len(invocations) :
        /\ invocations[j].file = <<nD, nA>>
        /\ calls[j + 1].desired = <<nD, nA>>
        /\ isfile(calls[j + 1].before, <<nD, nA1>>)
        /\ invocations[j].out_dir = AddSuffix(<<nD, nA>>, 2)

(* The start is bad: the executable is missing or its name is not one of   *)
(* the known ones, an input path names nothing, or no file is found.       *)
BadStart ==
    \/ ~isfile(fs, args.exe)
    \/ splitext(basename(args.exe))[1] \notin main_executables
    \/ \E j \in 1..Len(args.input) :
          ~isfile(fs, args.input[j]) /\ ~isdir(fs, args.input[j])
    \/ \A j \in 1..Len(args.input) :
          ~isfile(fs, args.input[j]) /\ VisibleFilesOf(fs, args.input[j]) = {}

NothingProcessed ==
    /\ fs \in InitialFs
    /\ calls = <<>>
    /\ invocations = <<>>
    /\ work_dir = None

(* C6: with a bad start the process ends with status -2, and until then no *)
(* directory has been created and the tool has not been run.               *)
C6_ValidationBeforeProcessing ==
    /\ (args # NoArgs /\ BadStart) =>
          /\ NothingProcessed
          /\ pc \in {"get_file_list", "exited"}
          /\ pc = "exited" => exitStatus = {-2}
    /\ pc = "exited" => NothingProcessed /\ exitStatus = {-2} /\ BadStart

(* The run has ended with -2 for an input directory without a visible      *)
(* file, every input path existing.                                        *)
C6_Witness ==
    /\ pc = "exited"
    /\ exitStatus = {-2}
    /\ isfile(fs, args.exe)
    /\ \A j \in 1..Len(args.input) : isdir(fs, args.input[j])
    /\ args.output # None

(* C8: every exit code is classified: the CMDSTATUS record of an archive   *)
(* carries the description of the table, or "unknown code", with the       *)
(* severity of the table (0: info; 1, 255: warning; all others: error),    *)
(* and the archive counts as a failure exactly when its code is not 0.     *)
C8_ClassificationTotal ==
    (Len(emitted) >= 1 /\ emitted[1].tag = "IN_FILE") =>
        LET c == rtn.returncode
        IN  /\ Len(emitted) = 3
            /\ emitted[3].tag = "CMDSTATUS"
            /\ emitted[3].nums = <<c>>
            /\ emitted[3].desc =
                 (CASE c = 0 -> "No error"
                    [] c = 1 -> "Warning"
                    [] c = 2 -> "Fatal error"
                    [] c = 7 -> "Command line error"
                    [] c = 8 -> "Not enough memory for operation"
                    [] c = 255 -> "User stopped the process"
                    [] OTHER -> "unknown code")
            /\ emitted[3].level =
                 (CASE c = 0 -> "INFO"
                    [] c \in {1, 255} -> "WARNING"
                    [] OTHER -> "ERROR")
            /\ statistics.failure = nonzero

(* C10: when os.makedirs fails for the directory of archive i, the run is  *)
(* over: the tool has been run for the archives before i only, the         *)
(* filesystem is as the last successful create_dir left it, and the        *)
(* failure count is that of the archives before i.                         *)
C10_DirectoryFailureAborts ==
    (raised = "makedirs: OSError" /\ calls # <<>>) =>
        /\ pc = "crashed"
        /\ exitStatus = {1}
        /\ Len(invocations) = i
        /\ Len(calls) = i + 1
        /\ fs = calls[Len(calls)].after
        /\ statistics.total = Len(files)
        /\ statistics.failure = nonzero
        /\ Tags(emitted) = <<"IDX/TOTAL">>

(* os.makedirs has failed for the second archive, after the first one was  *)
(* extracted with a non-zero exit code.                                    *)
C10_Witness ==
    /\ raised = "makedirs: OSError"
    /\ pc = "crashed"
    /\ i = 1
    /\ Len(invocations) = 1
    /\ statistics.failure = 1

(* C5: create_dir called a second time with the same desired path, the     *)
(* filesystem left alone in between, returns the directory of the first    *)
(* call, changes nothing and does not fail.                                *)
C5_Idempotent ==
    /\ Len(calls) = 1 => pc # "crashed"
    /\ Len(calls) = 2 =>
          /\ calls[2].desired = calls[1].desired
          /\ calls[2].before = calls[1].after
          /\ calls[2].result = calls[1].result
          /\ calls[2].after = calls[1].after
          /\ fs = calls[1].after

(* Both calls have returned, the first having made the directory with      *)
(* suffix (2) beside a regular file.                                       *)
C5_Witness ==
    /\ Len(calls) = 2
    /\ isfile(calls[1].before, calls[1].desired)
    /\ calls[1].before # calls[1].after
    /\ calls[2].result = AddSuffix(calls[1].desired, 2)

UpperCase == <<"A", "B", "C", "D", "E", "F", "G", "H", "I", "J", "K", "L", "M",
               "N", "O", "P", "Q", "R", "S", "T", "U", "V", "W", "X", "Y", "Z">>
LowerCase == <<"a", "b", "c", "d", "e", "f", "g", "h", "i", "j", "k", "l", "m",
               "n", "o", "p", "q", "r", "s", "t", "u", "v", "w", "x", "y", "z">>

lower(name) ==
    [j \in 1..Len(name) |->
        IF \E h \in 1..Len(UpperCase) : UpperCase[h] = name[j]
        THEN LowerCase[CHOOSE h \in 1..Len(UpperCase) : UpperCase[h] = name[j]]
        ELSE name[j]]

HasFlag(cmd, flag) ==
    \E j \in 1..Len(cmd) :
        Len(cmd[j]) >= Len(flag) /\ SubSeq(cmd[j], 1, Len(flag)) = flag

(* C7: the command of seven_zip holds the password flag exactly when a     *)
(* password was supplied and the extension of the archive, put in          *)
(* lowercase, is .zip, .7z, .rar or empty; the archive path is its last    *)
(* argument.                                                               *)
C7_PasswordFlag ==
    pc = "record" =>
        LET file == files[i + 1]
            ext == lower(splitext(basename(file))[2])
        IN  /\ HasFlag(rtn.args, <<"-", "p">>)
                 <=> (args.password # Nothing /\ ext \in PasswordExts)
            /\ rtn.args[Len(rtn.args)] = PathStr(file)

AllExist(f, inp) ==
    \A j \in 1..Len(inp) : isfile(f, inp[j]) \/ isdir(f, inp[j])

====
